---- MODULE Spec2Model ----
(***************************************************************************)
(* Model of the download orchestration engine of myrient-dl               *)
(* (internal/downloader/downloader.go): DownloadAll, downloadParallel,    *)
(* downloadFileWithRetry, downloadFile and getRemoteFileSize, together    *)
(* with the file system, the HTTP client and the context they act on.     *)
(***************************************************************************)
EXTENDS Integers, Sequences, FiniteSets, TLC

(***************************************************************************)
(* Bounds of the model.                                                    *)
(***************************************************************************)
MaxFiles == 3
MaxParallel == 2
MaxRetry == 2
MaxBody == 1
\* attempts a parallel run may need: len(files) * RetryAttempts
MaxAttempts == 4
\* runs of the engine over the same descriptors and output directory
MaxRuns == 2
\* the attempts whose backoff is computed
MaxAttemptNo == 40

(***************************************************************************)
(* Inputs.  A descriptor is identified by its name; the listings the run  *)
(* is started on are the prefixes of these lists of pairwise distinct     *)
(* names.                                                                  *)
(***************************************************************************)
BaseLists == { <<"a", "b", "c", "d">>, <<"a.tmp", "a">> }

Min(x, y) == IF x < y THEN x ELSE y

\* the sizes a listing can advertise for a body of MaxBody chunks
ExpectedSizes == 0..(MaxBody + 1)

\* parser.FileInfo: Size is what the listing advertised, rounded from a
\* human-readable string, so it need not be the length of the remote body
FileInfo(name) ==
  [Name |-> name, Size |-> IF name \in {"a", "c"} THEN MaxBody ELSE MaxBody - 1]

FileLists ==
  UNION { { [k \in 1..n |-> FileInfo(l[k])] : n \in 0..Min(Len(l), MaxFiles) } : l \in BaseLists }

\* filepath.Join(d.config.OutputDir, file.Name), for a fixed output directory
OutputPath(name) == name

\* tempPath := outputPath + ".tmp"
TempPath(outputPath) == outputPath \o ".tmp"

Paths == UNION { UNION { {OutputPath(l[k]), TempPath(OutputPath(l[k]))} : k \in 1..Len(l) } :
                   l \in BaseLists }

NoFile == [ino |-> 0, src |-> 0, size |-> 0]

VARIABLES
  files,          \* the descriptors handed to DownloadAll (their names)
  Parallel,       \* d.config.Parallel
  RetryAttempts,  \* d.config.RetryAttempts
  remoteSize,     \* length of every remote body, in chunks
  fs,             \* the output directory: path -> file
  ctxParent,      \* the caller's context is cancelled
  ctxChild,       \* downloadParallel's cancel() was called
  semaphore,      \* number of elements in the semaphore channel
  errCh,          \* content of the error channel
  wg,             \* counter of the WaitGroup
  completed,      \* the progress counter
  mainPc,         \* position of DownloadAll / downloadParallel
  idx,            \* index of the range loop over files
  result,         \* what DownloadAll returned
  unit,           \* per descriptor: the state of its downloadFileWithRetry
  run,            \* the number of the run of the engine that is under way
  delay,          \* the computation of one backoff (lines 80-93)
  filter,         \* one call of Matcher.Filter
  listing,        \* one call of parser.ParseDirectoryListing
  cmd             \* one execution of the command (cmd.run)

vars == << files, Parallel, RetryAttempts, remoteSize, fs, ctxParent, ctxChild,
           semaphore, errCh, wg, completed, mainPc, idx, result, unit, run, delay,
           filter, listing, cmd >>

N == Len(files)
Units == 1..N

\* ctx.Done() is closed: the context the units run under is cancelled
Done == ctxParent \/ ctxChild

outputPath(i) == OutputPath(files[i].Name)
tempPath(i) == TempPath(outputPath(i))

Exists(p) == fs[p].ino # 0

\* no backoff is being computed
NoDelay == [pc |-> "none"]

\* the matcher, the parser, the command: not under way
NoCall == [pc |-> "none"]

\* a unit that has not been started yet
IdleUnit == [pc |-> "idle", attempt |-> 0, err |-> "nil", lastErr |-> "nil",
             ret |-> "nil", out |-> 0, written |-> 0, outcome |-> "none"]

\* nil
NoError == [ok |-> TRUE, first |-> 0, count |-> 0, cause |-> "nil", attempts |-> 0]

\* the file found at the first descriptor's output path before the run, left
\* by an earlier run: none (-1), shorter than the remote body, or as long
PreSizes == {-1, MaxBody - 1, MaxBody}

PreFile(s) == [ino |-> 0 - 1, src |-> 0, size |-> s]

\* the temporary file of the first descriptor a run that was killed while
\* streaming left behind: none (-1), or one holding the start of the body
StaleSizes == {-1, MaxBody - 1}

StaleFile(s) == [ino |-> 0 - 2, src |-> 0, size |-> s]

InitDir(fl, pre, stale) ==
  [p \in Paths |->
     IF Len(fl) > 0 /\ pre >= 0 /\ p = OutputPath(fl[1].Name) THEN PreFile(pre)
     ELSE IF Len(fl) > 0 /\ stale >= 0 /\ p = TempPath(OutputPath(fl[1].Name)) THEN StaleFile(stale)
     ELSE NoFile]

Init ==
  /\ files \in FileLists
  /\ Parallel \in 1..MaxParallel
  /\ RetryAttempts \in 1..MaxRetry
  /\ Parallel > 1 => Len(files) * RetryAttempts <= MaxAttempts
  /\ remoteSize = MaxBody
  /\ \E pre \in PreSizes, stale \in StaleSizes : fs = InitDir(files, pre, stale)
  /\ ctxParent = FALSE
  /\ ctxChild = FALSE
  /\ semaphore = 0
  /\ errCh = << >>
  /\ wg = 0
  /\ completed = 0
  /\ mainPc = "DownloadAll"
  /\ idx = 1
  /\ result = NoError
  /\ unit = [i \in 1..Len(files) |-> IdleUnit]
  /\ run = 1
  /\ delay = NoDelay
  /\ filter = NoCall
  /\ listing = NoCall
  /\ cmd = NoCall

conf == << files, Parallel, RetryAttempts, remoteSize, run, delay, filter, listing, cmd >>
coord == << semaphore, errCh, wg, completed, mainPc, idx, result >>
ctx == << ctxParent, ctxChild >>

Set(i, r) == unit' = [unit EXCEPT ![i] = r]

\* the variables of the engine
engine == << files, Parallel, RetryAttempts, remoteSize, run, fs, ctx, coord, unit >>

\* the engine before DownloadAll is called on fl, in an empty directory
AtRest(fl, retry) ==
  /\ files = fl
  /\ Parallel = 1
  /\ RetryAttempts = retry
  /\ remoteSize = MaxBody
  /\ fs = InitDir(files, 0 - 1, 0 - 1)
  /\ ctxParent = FALSE
  /\ ctxChild = FALSE
  /\ semaphore = 0
  /\ errCh = << >>
  /\ wg = 0
  /\ completed = 0
  /\ mainPc = "DownloadAll"
  /\ idx = 1
  /\ result = NoError
  /\ unit = [i \in Units |-> IdleUnit]
  /\ run = 1

(***************************************************************************)
(* downloadFileWithRetry (lines 66-101).                                   *)
(***************************************************************************)
\* lines 69-70: an attempt starts
NextAttempt(u) == [u EXCEPT !.pc = "head", !.attempt = @ + 1]

\* lines 71-73 without the return: the loop goes on after a nil
AttemptOkNoReturn(u, oc) ==
  IF u.attempt < RetryAttempts
  THEN NextAttempt([u EXCEPT !.outcome = oc, !.err = "nil"])
  ELSE [u EXCEPT !.pc = "retok", !.outcome = oc, !.err = "nil"]

\* lines 71-73: downloadFile returned nil
AttemptOk(u, oc) == [u EXCEPT !.pc = "retok", !.outcome = oc, !.err = "nil"]

\* lines 75 and 100 with lastErr assigned by the first failure only
AttemptFailFirst(u, e) ==
  IF u.attempt < RetryAttempts
  THEN [u EXCEPT !.pc = "backoff", !.err = "nil",
                 !.lastErr = IF @ = "nil" THEN e ELSE @]
  ELSE [u EXCEPT !.pc = "reterr", !.err = "nil",
                 !.lastErr = IF @ = "nil" THEN e ELSE @, !.ret = "failed",
                 !.outcome = "Failed"]

\* lines 69-100 with a status other than 200 not retried
AttemptFailStatusFatal(u, e) ==
  IF u.attempt < RetryAttempts /\ e # "status"
  THEN [u EXCEPT !.pc = "backoff", !.err = "nil"]
  ELSE [u EXCEPT !.pc = "reterr", !.err = "nil", !.lastErr = e, !.ret = "failed",
                 !.outcome = "Failed"]

\* lines 69-100 with the loop left one attempt early
AttemptFailEarly(u, e) ==
  IF u.attempt < RetryAttempts - 1
  THEN [u EXCEPT !.pc = "backoff", !.err = "nil"]
  ELSE [u EXCEPT !.pc = "reterr", !.err = "nil", !.lastErr = e, !.ret = "failed",
                 !.outcome = "Failed"]

\* lines 75-76 and 100: downloadFile returned the error e.  lastErr is read
\* at line 100 only, after the last attempt has assigned it, so it is kept
\* from there on; the error returned is "failed after N attempts" around it
AttemptFail(u, e) ==
  IF u.attempt < RetryAttempts
  THEN [u EXCEPT !.pc = "backoff", !.err = "nil"]
  ELSE [u EXCEPT !.pc = "reterr", !.err = "nil", !.lastErr = e, !.ret = "failed",
                 !.outcome = "Failed"]

\* lines 92-96 with the wait as a plain sleep
BackoffSleep(i) ==
  /\ unit[i].pc = "backoff"
  /\ Set(i, NextAttempt(unit[i]))
  /\ UNCHANGED << conf, fs, ctx, coord >>

\* lines 92-96: the wait before the next attempt, a select between the
\* timer and ctx.Done(); line 95 returns ctx.Err().  The timer is started at
\* line 93 with a positive duration, so it is not ready when the select is
\* entered, and the first of the two channels to become ready decides the
\* select: once ctx.Done() is closed the timer case is not taken any more
Backoff(i) ==
  /\ unit[i].pc = "backoff"
  /\ \/ /\ ~Done
        /\ Set(i, NextAttempt(unit[i]))
     \/ /\ Done
        /\ Set(i, [unit[i] EXCEPT !.pc = "reterr", !.ret = "ctx", !.outcome = "Failed"])
  /\ UNCHANGED << conf, fs, ctx, coord >>

(***************************************************************************)
(* getRemoteFileSize (lines 185-207) and downloadFile (lines 104-182).     *)
(* A request and its response are one step: the client refuses a request  *)
(* whose context is already cancelled, and a request that is answered     *)
(* although the context was cancelled meanwhile is one that was answered  *)
(* just before.                                                            *)
(***************************************************************************)
\* os.Create: O_CREATE|O_TRUNC, an existing file is truncated in place, a
\* new one is a file of its own
Created(i, p) ==
  IF Exists(p) THEN [fs[p] EXCEPT !.src = i, !.size = 0]
  ELSE [ino |-> i + N * (run - 1), src |-> i, size |-> 0]

\* the resume check of lines 113-123 on the size the listing advertised
ResumeCheckListedSize(u, file, actualSize) ==
  IF Exists(OutputPath(file.Name)) /\ fs[OutputPath(file.Name)].size = file.Size
  THEN AttemptOk(u, "Skipped")
  ELSE [u EXCEPT !.pc = "get"]

\* the resume check of lines 113-123 looking at the existence of the file only
ResumeCheckAnyFile(u, file, actualSize) ==
  IF Exists(OutputPath(file.Name))
  THEN AttemptOk(u, "Skipped")
  ELSE [u EXCEPT !.pc = "get"]

\* lines 113-123: the resume check on the size the server reported
ResumeCheck(u, file, actualSize) ==
  IF Exists(OutputPath(file.Name)) /\ fs[OutputPath(file.Name)].size = actualSize
  THEN AttemptOk(u, "Skipped")
  ELSE [u EXCEPT !.pc = "get"]

\* lines 108-123 with the temporary file created before the HEAD request
HeadRequestTempFirst(i) ==
  /\ unit[i].pc = "head"
  /\ fs' = [fs EXCEPT ![tempPath(i)] = Created(i, tempPath(i))]
  /\ IF Done
     THEN Set(i, AttemptFail(unit[i], "ctx"))
     ELSE \/ Set(i, ResumeCheck(unit[i], files[i], remoteSize))
          \/ Set(i, AttemptFail(unit[i], "head"))
  /\ UNCHANGED << conf, ctx, coord >>

\* lines 108-123 with the local file opened for writing before it is compared
HeadRequestTruncating(i) ==
  /\ unit[i].pc = "head"
  /\ IF Done
     THEN /\ Set(i, AttemptFail(unit[i], "ctx"))
          /\ UNCHANGED fs
     ELSE \/ /\ Set(i, ResumeCheck(unit[i], files[i], remoteSize))
             /\ fs' = [fs EXCEPT ![outputPath(i)] = [@ EXCEPT !.src = i]]
          \/ /\ Set(i, AttemptFail(unit[i], "head"))
             /\ UNCHANGED fs
  /\ UNCHANGED << conf, ctx, coord >>

\* lines 108-123 and 185-207: the HEAD request, its response, and on
\* success os.Stat(outputPath)
HeadRequest(i) ==
  /\ unit[i].pc = "head"
  /\ IF Done
     THEN Set(i, AttemptFail(unit[i], "ctx"))
     ELSE \/ Set(i, ResumeCheck(unit[i], files[i], remoteSize))
          \/ Set(i, AttemptFail(unit[i], "head"))
  /\ UNCHANGED << conf, fs, ctx, coord >>

\* lines 126-156 with the body written to the output path itself
GetRequestInPlace(i) ==
  /\ unit[i].pc = "get"
  /\ IF Done
     THEN /\ Set(i, AttemptFail(unit[i], "ctx"))
          /\ UNCHANGED fs
     ELSE \/ /\ fs' = [fs EXCEPT ![outputPath(i)] = Created(i, outputPath(i))]
             /\ Set(i, [unit[i] EXCEPT !.pc = "copy", !.written = 0,
                                       !.out = Created(i, outputPath(i)).ino])
          \/ /\ \E e \in {"net", "status", "io"} : Set(i, AttemptFail(unit[i], e))
             /\ UNCHANGED fs
  /\ UNCHANGED << conf, ctx, coord >>

\* lines 126-156: the GET request, its response headers, and on status 200
\* os.Create(tempPath)
GetRequest(i) ==
  /\ unit[i].pc = "get"
  /\ IF Done
     THEN /\ Set(i, AttemptFail(unit[i], "ctx"))
          /\ UNCHANGED fs
     ELSE \/ /\ fs' = [fs EXCEPT ![tempPath(i)] = Created(i, tempPath(i))]
             /\ Set(i, [unit[i] EXCEPT !.pc = "copy", !.written = 0,
                                       !.out = Created(i, tempPath(i)).ino])
          \/ /\ \E e \in {"net", "status", "io"} : Set(i, AttemptFail(unit[i], e))
             /\ UNCHANGED fs
  /\ UNCHANGED << conf, ctx, coord >>

\* out.Write: the chunk is appended to the open file, wherever it is linked
Written(ino) ==
  [p \in Paths |-> IF fs[p].ino = ino /\ ino # 0 THEN [fs[p] EXCEPT !.size = @ + 1] ELSE fs[p]]

\* os.Remove(p)
Removed(p) == [fs EXCEPT ![p] = NoFile]

\* lines 165-173: io.Copy moves one chunk of the body and after the last
\* chunk out.Close() follows; when one of them fails, downloadFile returns
\* through the deferred out.Close() and os.Remove(tempPath) of lines 152-156
Copy(i) ==
  /\ unit[i].pc = "copy"
  /\ \/ /\ fs' = Written(unit[i].out)
        /\ IF unit[i].written + 1 < remoteSize
           THEN Set(i, [unit[i] EXCEPT !.written = @ + 1])
           ELSE Set(i, [unit[i] EXCEPT !.pc = "rename", !.written = 0, !.out = 0])
     \/ /\ fs' = Removed(tempPath(i))
        /\ \/ \E e \in {"net", "io"} :
                Set(i, AttemptFail([unit[i] EXCEPT !.written = 0, !.out = 0], e))
           \/ /\ Done
              /\ Set(i, AttemptFail([unit[i] EXCEPT !.written = 0, !.out = 0], "ctx"))
  /\ UNCHANGED << conf, ctx, coord >>

\* os.Rename(old, new) on an existing old
Renamed(old, new) == [fs EXCEPT ![new] = fs[old], ![old] = NoFile]

\* lines 175-178: the temporary file is published
Rename(i) ==
  /\ unit[i].pc = "rename"
  /\ \/ /\ Exists(tempPath(i))
        /\ fs' = Renamed(tempPath(i), outputPath(i))
        /\ Set(i, [unit[i] EXCEPT !.pc = "cleanup", !.err = "nil"])
     \/ /\ Set(i, [unit[i] EXCEPT !.pc = "cleanup", !.err = "io"])
        /\ UNCHANGED fs
  /\ UNCHANGED << conf, ctx, coord >>

\* lines 152-156, deferred, after line 176: out.Close() and
\* os.Remove(tempPath), then downloadFile returns
Cleanup(i) ==
  /\ unit[i].pc = "cleanup"
  /\ fs' = Removed(tempPath(i))
  /\ IF unit[i].err = "nil"
     THEN Set(i, AttemptOk(unit[i], "Completed"))
     ELSE Set(i, AttemptFail(unit[i], unit[i].err))
  /\ UNCHANGED << conf, ctx, coord >>

(***************************************************************************)
(* DownloadAll, serial mode (lines 48-56).                                 *)
(***************************************************************************)
\* lines 54 and 251: "failed to download <name>: <err>", where err is
\* ctx.Err() or "failed after <attempts> attempts: <lastErr>"
Failure(i, u) ==
  [ok |-> FALSE, first |-> i, count |-> 0,
   cause |-> IF u.ret = "ctx" THEN "ctx" ELSE u.lastErr,
   attempts |-> IF u.ret = "ctx" THEN 0 ELSE RetryAttempts]

\* downloadFileWithRetry has returned and its value was taken over: its
\* locals are gone
Returned(u, pc) == [u EXCEPT !.pc = pc, !.attempt = 0, !.lastErr = "nil"]

\* line 48: the mode is chosen
DownloadAll ==
  /\ mainPc = "DownloadAll"
  /\ mainPc' = IF Parallel = 1 THEN "serial" ELSE "spawn"
  /\ UNCHANGED << conf, fs, ctx, semaphore, errCh, wg, completed, idx, result, unit >>

\* lines 50-53: the next descriptor is handed to downloadFileWithRetry, or
\* line 62 once the loop is over
SerialCall ==
  /\ mainPc = "serial"
  /\ IF idx > N
     THEN /\ mainPc' = "returned"
          /\ UNCHANGED unit
     ELSE /\ mainPc' = "call"
          /\ Set(idx, NextAttempt(unit[idx]))
  /\ UNCHANGED << conf, fs, ctx, semaphore, errCh, wg, completed, idx, result >>

\* lines 53-55 with the loop carrying on after an error
SerialReturnCarryOn ==
  /\ mainPc = "call"
  /\ unit[idx].pc \in {"retok", "reterr"}
  /\ Set(idx, Returned(unit[idx], "exit"))
  /\ idx' = idx + 1
  /\ mainPc' = "serial"
  /\ result' = IF unit[idx].pc = "reterr" /\ result.ok THEN Failure(idx, unit[idx]) ELSE result
  /\ UNCHANGED << conf, fs, ctx, semaphore, errCh, wg, completed >>

\* lines 53-55: downloadFileWithRetry returned
SerialReturn ==
  /\ mainPc = "call"
  /\ \/ /\ unit[idx].pc = "retok"
        /\ Set(idx, Returned(unit[idx], "exit"))
        /\ idx' = idx + 1
        /\ mainPc' = "serial"
        /\ UNCHANGED result
     \/ /\ unit[idx].pc = "reterr"
        /\ Set(idx, Returned(unit[idx], "exit"))
        /\ result' = Failure(idx, unit[idx])
        /\ mainPc' = "returned"
        /\ UNCHANGED idx
  /\ UNCHANGED << conf, fs, ctx, semaphore, errCh, wg, completed >>

(***************************************************************************)
(* downloadParallel (lines 210-282).                                       *)
(***************************************************************************)
\* lines 224-260: wg.Add(1) and go func(f) for every descriptor; a unit
\* that was started and one that is yet to be started look the same to
\* every other unit until it runs line 230
Spawn ==
  /\ mainPc = "spawn"
  /\ wg' = wg + N
  /\ unit' = [i \in Units |-> [unit[i] EXCEPT !.pc = "check"]]
  /\ idx' = N + 1
  /\ mainPc' = "wait"
  /\ UNCHANGED << conf, fs, ctx, semaphore, errCh, completed, result >>

\* lines 229-234: the unit looks at the context before queueing; line 227,
\* deferred, is wg.Done()
Check(i) ==
  /\ unit[i].pc = "check"
  /\ IF Done
     THEN /\ Set(i, [unit[i] EXCEPT !.pc = "exit"])
          /\ wg' = wg - 1
     ELSE /\ Set(i, [unit[i] EXCEPT !.pc = "acquire"])
          /\ UNCHANGED wg
  /\ UNCHANGED << conf, fs, ctx, semaphore, errCh, completed, mainPc, idx, result >>

\* the select of lines 237-241 with the send on the semaphore never blocking
AcquireUngated(i) ==
  /\ unit[i].pc = "acquire"
  /\ \/ /\ semaphore' = semaphore + 1
        /\ Set(i, NextAttempt(unit[i]))
        /\ UNCHANGED wg
     \/ /\ Done
        /\ Set(i, [unit[i] EXCEPT !.pc = "exit"])
        /\ wg' = wg - 1
        /\ UNCHANGED semaphore
  /\ UNCHANGED << conf, fs, ctx, errCh, completed, mainPc, idx, result >>

\* lines 236-250: select between a slot of the semaphore and ctx.Done().
\* When both can proceed either one is taken; with the slot the progress
\* line is printed and downloadFileWithRetry called.  When neither can, the
\* unit is parked on both channels and the first of them to become ready
\* decides the select: see Release and Wake
Acquire(i) ==
  /\ unit[i].pc = "acquire"
  /\ \/ /\ semaphore < Parallel
        /\ semaphore' = semaphore + 1
        /\ Set(i, NextAttempt(unit[i]))
        /\ UNCHANGED wg
     \/ /\ Done
        /\ Set(i, [unit[i] EXCEPT !.pc = "exit"])
        /\ wg' = wg - 1
        /\ UNCHANGED semaphore
     \/ /\ semaphore >= Parallel
        /\ ~Done
        /\ Set(i, [unit[i] EXCEPT !.pc = "parked"])
        /\ UNCHANGED << semaphore, wg >>
  /\ UNCHANGED << conf, fs, ctx, errCh, completed, mainPc, idx, result >>

\* ctx.Done() is closed: every unit parked in the select of lines 237-241
\* leaves it through case <-ctx.Done()
Wake(us) ==
  [i \in DOMAIN us |-> IF us[i].pc = "parked" THEN [us[i] EXCEPT !.pc = "woken"] ELSE us[i]]

\* lines 239-240 with the deferred receive of line 242 registered before the
\* select: a woken unit takes an element out of the semaphore
WokenReceives(i) ==
  /\ unit[i].pc = "woken"
  /\ Set(i, [unit[i] EXCEPT !.pc = "exit"])
  /\ semaphore > 0
  /\ semaphore' = semaphore - 1
  /\ wg' = wg - 1
  /\ UNCHANGED << conf, fs, ctx, errCh, completed, mainPc, idx, result >>

\* lines 239-240 and 227, deferred: a woken unit returns, then wg.Done()
Woken(i) ==
  /\ unit[i].pc = "woken"
  /\ Set(i, [unit[i] EXCEPT !.pc = "exit"])
  /\ wg' = wg - 1
  /\ UNCHANGED << conf, fs, ctx, semaphore, errCh, completed, mainPc, idx, result >>

\* line 251 on an error channel made for one error: make(chan error, 1)
SendErrBufferOfOne(i) ==
  /\ Parallel # 1
  /\ unit[i].pc = "reterr"
  /\ Len(errCh) < 1
  /\ errCh' = Append(errCh, Failure(i, unit[i]))
  /\ Set(i, Returned(unit[i], "cancel"))
  /\ UNCHANGED << conf, fs, ctx, semaphore, wg, completed, mainPc, idx, result >>

\* line 251: the error is sent to errCh, which holds len(files) errors
SendErr(i) ==
  /\ Parallel # 1
  /\ unit[i].pc = "reterr"
  /\ Len(errCh) < N
  /\ errCh' = Append(errCh, Failure(i, unit[i]))
  /\ Set(i, Returned(unit[i], "cancel"))
  /\ UNCHANGED << conf, fs, ctx, semaphore, wg, completed, mainPc, idx, result >>

\* line 252 left out: the failing unit returns without cancel()
CancelLeftOut(i) ==
  /\ unit[i].pc = "cancel"
  /\ Set(i, [unit[i] EXCEPT !.pc = "release"])
  /\ UNCHANGED << conf, fs, ctx, coord >>

\* line 252: cancel()
Cancel(i) ==
  /\ unit[i].pc = "cancel"
  /\ ctxChild' = TRUE
  /\ unit' = Wake([unit EXCEPT ![i] = [@ EXCEPT !.pc = "release"]])
  /\ UNCHANGED << conf, fs, ctxParent, coord >>

\* line 245, under mu: the progress index a unit reports at line 248
current == completed + 1

\* lines 256-258 without mu: of two units that are at line 257 together one
\* writes back the value the other has read, and an increment is lost
CompleteUnlocked(i) ==
  /\ Parallel # 1
  /\ unit[i].pc = "retok"
  /\ completed' = IF \E j \in Units \ {i} : unit[j].pc = "retok"
                  THEN completed ELSE completed + 1
  /\ Set(i, Returned(unit[i], "release"))
  /\ UNCHANGED << conf, fs, ctx, semaphore, errCh, wg, mainPc, idx, result >>

\* lines 256-258, under mu: completed++
Complete(i) ==
  /\ Parallel # 1
  /\ unit[i].pc = "retok"
  /\ completed' = completed + 1
  /\ Set(i, Returned(unit[i], "release"))
  /\ UNCHANGED << conf, fs, ctx, semaphore, errCh, wg, mainPc, idx, result >>

\* lines 242 and 227 with the deferred receive from the semaphore left out
ReleaseSlotKept(i) ==
  /\ unit[i].pc = "release"
  /\ Set(i, [unit[i] EXCEPT !.pc = "exit"])
  /\ wg' = wg - 1
  /\ UNCHANGED << conf, fs, ctx, semaphore, errCh, completed, mainPc, idx, result >>

\* lines 242 and 227, deferred: the slot is given back, then wg.Done().  The
\* receive from a full semaphore hands the slot to a unit parked on it, whose
\* select is thereby decided
Release(i) ==
  /\ unit[i].pc = "release"
  /\ semaphore > 0
  /\ IF \E j \in Units : unit[j].pc = "parked"
     THEN /\ \E j \in Units :
               /\ unit[j].pc = "parked"
               /\ unit' = [unit EXCEPT ![i] = [@ EXCEPT !.pc = "exit"],
                                       ![j] = NextAttempt(@)]
          /\ UNCHANGED semaphore
     ELSE /\ semaphore' = semaphore - 1
          /\ Set(i, [unit[i] EXCEPT !.pc = "exit"])
  /\ wg' = wg - 1
  /\ UNCHANGED << conf, fs, ctx, errCh, completed, mainPc, idx, result >>

\* lines 266-281 returning the last of the collected errors
AggregateLast(errs) ==
  IF Len(errs) > 0
  THEN [errs[Len(errs)] EXCEPT !.count = Len(errs) - 1]
  ELSE NoError

\* lines 266-281: the value returned for the collected errors
Aggregate(errs) ==
  IF Len(errs) > 0
  THEN [errs[1] EXCEPT !.count = Len(errs) - 1]
  ELSE NoError

\* lines 264-281 and 212 without the wg.Wait() of line 263
WaitNoBarrier ==
  /\ mainPc = "wait"
  /\ result' = Aggregate(errCh)
  /\ errCh' = << >>
  /\ ctxChild' = TRUE
  /\ mainPc' = "returned"
  /\ UNCHANGED << conf, fs, ctxParent, semaphore, wg, completed, idx, unit >>

\* lines 262-281 and 212: wg.Wait(), the errors are collected, the result is
\* returned and the deferred cancel() runs
Wait ==
  /\ mainPc = "wait"
  /\ wg = 0
  /\ result' = Aggregate(errCh)
  /\ errCh' = << >>
  /\ ctxChild' = TRUE
  /\ mainPc' = "returned"
  /\ UNCHANGED << conf, fs, ctxParent, semaphore, wg, completed, idx, unit >>

\* the caller's context is cancelled (SIGINT/SIGTERM) while the run lasts
ExternalCancel ==
  /\ mainPc # "returned"
  /\ ~ctxParent
  /\ ctxParent' = TRUE
  /\ unit' = Wake(unit)
  /\ UNCHANGED << conf, fs, ctxChild, coord >>

\* the engine is run again over the same descriptors and output directory
\* after a run that returned nil: New and DownloadAll with everything but the
\* directory as it was at the start
Rerun ==
  /\ mainPc = "returned"
  /\ result.ok
  /\ run < MaxRuns
  /\ run' = run + 1
  /\ ctxParent' = FALSE
  /\ ctxChild' = FALSE
  /\ semaphore' = 0
  /\ errCh' = << >>
  /\ wg' = 0
  /\ completed' = 0
  /\ mainPc' = "DownloadAll"
  /\ idx' = 1
  /\ result' = NoError
  /\ unit' = [i \in Units |-> IdleUnit]
  /\ UNCHANGED << files, Parallel, RetryAttempts, remoteSize, fs, delay, filter, listing, cmd >>

Next ==
  \/ DownloadAll \/ SerialCall \/ SerialReturn \/ Spawn \/ Wait \/ ExternalCancel
  \/ \E i \in Units : HeadRequest(i)
  \/ \E i \in Units : GetRequest(i)
  \/ \E i \in Units : Copy(i)
  \/ \E i \in Units : Rename(i)
  \/ \E i \in Units : Cleanup(i)
  \/ \E i \in Units : Backoff(i)
  \/ \E i \in Units : Check(i)
  \/ \E i \in Units : Acquire(i)
  \/ \E i \in Units : Woken(i)
  \/ \E i \in Units : SendErr(i)
  \/ \E i \in Units : Cancel(i)
  \/ \E i \in Units : Complete(i)
  \/ \E i \in Units : Release(i)

Spec == Init /\ [][Next]_vars

\* a step of the coordinator or of a unit: every step but the cancellation
\* of the caller's context, which nothing obliges to happen
Scheduled == Next /\ ctxParent' = ctxParent

\* the engine under a fair scheduler: a goroutine that can take a step is
\* not held back forever, and every request, write and timer comes back
SpecFair == Init /\ [][Next]_vars /\ WF_vars(Scheduled)

\* the runs of the engine one after the other
SpecRerun == Init /\ [][Next \/ Rerun]_vars

(***************************************************************************)
(* The backoff of downloadFileWithRetry (lines 80-93), computed with the   *)
(* width of time.Duration (int64 nanoseconds).  Every duration that occurs *)
(* is a multiple of 64 ns, so a duration is held in units of 64 ns as the  *)
(* 58-bit two's complement number hi * Limb + lo, -Limb/2 <= hi < Limb/2,  *)
(* 0 <= lo < Limb: it wraps exactly where the int64 wraps.                 *)
(***************************************************************************)
LimbBits == 29
Limb == 2^LimbBits

\* time.Second, in units of 64 ns
Second == 15625000

\* the values of rand.Float64() that are followed, in quarters
Quarters == 0..3

Dur(hi, lo) == [hi |-> hi, lo |-> lo]

\* the upper limb, wrapped as the int64 wraps
Wrap(x) == ((x + Limb \div 2) % Limb) - Limb \div 2

Add(a, b) ==
  Dur(Wrap(a.hi + b.hi + (a.lo + b.lo) \div Limb), (a.lo + b.lo) % Limb)

Neg(d) ==
  IF d.lo = 0 THEN Dur(Wrap(0 - d.hi), 0) ELSE Dur(Wrap(0 - d.hi - 1), Limb - d.lo)

\* the exact half of a duration that has one
Half(d) == Dur(d.hi \div 2, d.lo \div 2 + (d.hi % 2) * (Limb \div 2))

Gt(a, b) == a.hi > b.hi \/ (a.hi = b.hi /\ a.lo > b.lo)

\* d * 2^k in int64, for a duration d of one limb
Shl(d, k) ==
  CASE k < LimbBits ->
         Dur(d.lo \div 2^(LimbBits - k), (d.lo % 2^(LimbBits - k)) * 2^k)
    [] k >= LimbBits /\ k < 2 * LimbBits ->
         Dur(Wrap((d.lo % 2^(2 * LimbBits - k)) * 2^(k - LimbBits)), 0)
    [] OTHER -> Dur(0, 0)

Zero == Dur(0, 0)
ThirtySeconds == Dur(0, 30 * Second)

\* line 80: time.Second * time.Duration(math.Pow(2, float64(attempt-1)))
baseDelay(attempt) == Shl(Dur(0, Second), attempt - 1)

\* line 81: time.Duration(float64(baseDelay) * 0.25 * (2*rand.Float64() - 1)),
\* for rand.Float64() = q/4: the factor is (q - 2)/8, the products are exact
jitter(attempt, q) ==
  LET eighth == Half(Half(Half(baseDelay(attempt))))
  IN  CASE q = 0 -> Neg(Add(eighth, eighth))
        [] q = 1 -> Neg(eighth)
        [] q = 2 -> Zero
        [] q = 3 -> eighth

\* lines 82-87: the sum, capped where it exceeds 30 seconds
backoff(attempt, q) ==
  LET sum == Add(baseDelay(attempt), jitter(attempt, q))
  IN  IF Gt(sum, ThirtySeconds) THEN ThirtySeconds ELSE sum

\* line 93: a timer of a duration that is not positive fires at once
After(d) == IF Gt(d, Zero) THEN d ELSE Zero

\* attempt `attempt` has failed and is not the last one: lines 80-87
ComputeBackoff ==
  /\ delay.pc = "failed"
  /\ delay' = [delay EXCEPT !.pc = "select",
                              !.prev = delay.baseDelay,
                              !.baseDelay = baseDelay(delay.attempt),
                              !.backoff = backoff(delay.attempt, delay.q)]
  /\ UNCHANGED << engine, filter, listing, cmd >>

\* lines 92-96 with a context that is not cancelled: the timer fires
TimerFires ==
  /\ delay.pc = "select"
  /\ delay' = [delay EXCEPT !.pc = "next", !.w = After(delay.backoff)]
  /\ UNCHANGED << engine, filter, listing, cmd >>

\* lines 69-77: the next attempt fails too and is not the last one
AttemptFailsAgain ==
  /\ delay.pc = "next"
  /\ delay.attempt + 1 < RetryAttempts
  /\ \E q \in Quarters :
       delay' = [delay EXCEPT !.pc = "failed", !.attempt = @ + 1, !.q = q,
                              !.backoff = Zero, !.w = Zero]
  /\ UNCHANGED << engine, filter, listing, cmd >>

\* the first attempt of one descriptor has failed, the engine at rest
InitBackoff ==
  /\ AtRest(<< FileInfo("a") >>, MaxAttemptNo)
  /\ filter = NoCall
  /\ listing = NoCall
  /\ cmd = NoCall
  /\ \E q \in Quarters :
       delay = [pc |-> "failed", attempt |-> 1, q |-> q, prev |-> Zero,
                baseDelay |-> Zero, backoff |-> Zero, w |-> Zero]

NextBackoff == ComputeBackoff \/ TimerFires \/ AttemptFailsAgain

SpecBackoff == InitBackoff /\ [][NextBackoff]_vars

(***************************************************************************)
(* The matcher (internal/matcher/matcher.go, lines 61-137).  A name and a *)
(* pattern are the sequences of their characters; "[" in a pattern stands *)
(* for a character class that is never closed.                            *)
(***************************************************************************)
\* the length of the listings and of the pattern lists that are followed
MaxListed == 2
MaxPatterns == 2

\* "", "a", "b/a"
Names == { << >>, << "a" >>, << "b", "/", "a" >> }

\* "", "*", "a*", "["
Patterns == { << >>, << "*" >>, << "a", "*" >>, << "[" >> }

SeqsUpTo(S, n) == UNION { [1..k -> S] : k \in 0..n }

\* the listings: descriptors told apart by their URL
Listings ==
  { [k \in 1..Len(ns) |-> [Name |-> ns[k], URL |-> k]] : ns \in SeqsUpTo(Names, MaxListed) }

\* filepath.ErrBadPattern: the pattern is malformed
BadPattern(pattern) == \E k \in 1..Len(pattern) : pattern[k] = "["

RECURSIVE Glob(_, _)
\* a well-formed pattern matches the whole name; "*" and "?" do not match
\* the separator
Glob(pattern, name) ==
  IF pattern = << >> THEN name = << >>
  ELSE IF Head(pattern) = "*"
    THEN \/ Glob(Tail(pattern), name)
         \/ name # << >> /\ Head(name) # "/" /\ Glob(pattern, Tail(name))
  ELSE IF Head(pattern) = "?"
    THEN name # << >> /\ Head(name) # "/" /\ Glob(Tail(pattern), Tail(name))
  ELSE name # << >> /\ Head(name) = Head(pattern) /\ Glob(Tail(pattern), Tail(name))

\* filepath.Match(pattern, name)
Match(pattern, name) ==
  IF BadPattern(pattern) THEN [matched |-> FALSE, err |-> TRUE]
  ELSE [matched |-> Glob(pattern, name), err |-> FALSE]

RECURSIVE matchedAnyAbort(_, _)
\* the include loop giving up at an invalid pattern
matchedAnyAbort(patterns, filename) ==
  IF patterns = << >> THEN FALSE
  ELSE LET pattern == Head(patterns)
       IN  IF pattern = << >> \/ pattern = << "*" >> THEN TRUE
           ELSE IF Match(pattern, filename).err THEN FALSE
           ELSE IF Match(pattern, filename).matched THEN TRUE
           ELSE matchedAnyAbort(Tail(patterns), filename)

RECURSIVE matchedAny(_, _)
\* lines 101-115: the loop over the include patterns, from the first of them
matchedAny(patterns, filename) ==
  IF patterns = << >> THEN FALSE
  ELSE LET pattern == Head(patterns)
       IN  IF pattern = << >> \/ pattern = << "*" >> THEN TRUE
           ELSE IF Match(pattern, filename).err THEN matchedAny(Tail(patterns), filename)
           ELSE IF Match(pattern, filename).matched THEN TRUE
           ELSE matchedAny(Tail(patterns), filename)

\* the exclude loop leaving after its first pattern
excludedFirstOnly(patterns, filename) ==
  /\ patterns # << >>
  /\ Head(patterns) # << >>
  /\ ~Match(Head(patterns), filename).err
  /\ Match(Head(patterns), filename).matched

RECURSIVE excluded(_, _)
\* lines 122-133: the loop over the exclude patterns
excluded(patterns, filename) ==
  IF patterns = << >> THEN FALSE
  ELSE LET pattern == Head(patterns)
       IN  IF pattern = << >> THEN excluded(Tail(patterns), filename)
           ELSE IF Match(pattern, filename).err THEN excluded(Tail(patterns), filename)
           ELSE IF Match(pattern, filename).matched THEN TRUE
           ELSE excluded(Tail(patterns), filename)

\* Matcher.matches (lines 98-136)
matches(m, filename) ==
  IF Len(m.includePatterns) > 0 /\ ~matchedAny(m.includePatterns, filename) THEN FALSE
  ELSE ~excluded(m.excludePatterns, filename)

\* the loop putting each kept descriptor in front of the result
FilterIterationPrepend ==
  /\ filter.pc = "range"
  /\ filter.i <= Len(filter.files)
  /\ filter' = [filter EXCEPT
       !.i = @ + 1,
       !.filtered = IF matches(filter.m, filter.files[filter.i].Name)
                      THEN << filter.files[filter.i] >> \o @ ELSE @]
  /\ UNCHANGED << engine, delay, listing, cmd >>

\* lines 88-92: one iteration of the range loop of Filter
FilterIteration ==
  /\ filter.pc = "range"
  /\ filter.i <= Len(filter.files)
  /\ filter' = [filter EXCEPT
       !.i = @ + 1,
       !.filtered = IF matches(filter.m, filter.files[filter.i].Name)
                      THEN Append(@, filter.files[filter.i]) ELSE @]
  /\ UNCHANGED << engine, delay, listing, cmd >>

\* line 94
FilterReturn ==
  /\ filter.pc = "range"
  /\ filter.i > Len(filter.files)
  /\ filter' = [filter EXCEPT !.pc = "returned"]
  /\ UNCHANGED << engine, delay, listing, cmd >>

\* matcher.New(include, exclude).Filter(files) is called (lines 77-86)
InitMatcher ==
  /\ AtRest(<< >>, 1)
  /\ delay = NoDelay
  /\ listing = NoCall
  /\ cmd = NoCall
  /\ \E fl \in Listings, include \in SeqsUpTo(Patterns, MaxPatterns),
        exclude \in SeqsUpTo(Patterns, MaxPatterns) :
       filter = [pc |-> "range",
                 m |-> [includePatterns |-> include, excludePatterns |-> exclude],
                 files |-> fl, i |-> 1, filtered |-> << >>]

NextMatcher == FilterIteration \/ FilterReturn

SpecMatcher == InitMatcher /\ [][NextMatcher]_vars

(***************************************************************************)
(* The listing parser (internal/parser/parser.go): ParseDirectoryListing   *)
(* (lines 25-48) and parseHTML (lines 51-106).  A page is the sequence of  *)
(* its <a> elements in document order.                                     *)
(***************************************************************************)
\* the number of <a> elements of a page
MaxLinks == 3

\* http.StatusOK
StatusOK == 200

\* the answers to the request for the page; 0: client.Do returned an error
Statuses == {0, StatusOK, 404}

\* an <a> element: inside table#list or not, with or without an href
A(table, attr, href, text, size) ==
  [table |-> table, attr |-> attr, href |-> href, text |-> text, size |-> size]

\* two files, the second with an empty link text; the parent directory
\* twice; a sort link; a sub-directory; an href url.Parse rejects; an anchor
\* without href; a link outside the listing table
Links ==
  { A(TRUE, TRUE, "a.zip", " a.zip ", 2), A(TRUE, TRUE, "b.zip", "", 0),
    A(TRUE, TRUE, "../", "Parent Directory", 0), A(TRUE, TRUE, "..", "..", 0),
    A(TRUE, TRUE, "?C=N;O=D", "Name", 0), A(TRUE, TRUE, "sub/", "sub/", 0),
    A(TRUE, TRUE, "%zz", "broken", 1), A(TRUE, FALSE, "", "top", 0),
    A(FALSE, TRUE, "c.zip", "c.zip", 1) }

Pages == SeqsUpTo(Links, MaxLinks)

\* strings.Contains(href, "?C=")
ContainsSort(href) == href \in {"?C=N;O=D"}

\* strings.HasSuffix(href, "/")
HasSuffixSlash(href) == href \in {"../", "sub/"}

\* strings.TrimSpace
TrimSpace(text) == IF text = " a.zip " THEN "a.zip" ELSE text

\* buildAbsoluteURL (lines 109-121): url.Parse rejects the href, or the
\* reference is resolved against the URL of the directory
buildAbsoluteURL(href) ==
  IF href = "%zz" THEN [URL |-> "", err |-> TRUE]
  ELSE [URL |-> "http://host/dir/" \o href, err |-> FALSE]

\* extractSize (lines 125-153): the size found around the link
extractSize(s) == s.size

\* the callback without the check for directories
EachLinkKeepsDirs(s) ==
  IF ~s.attr THEN << >>
  ELSE IF s.href = "../" \/ s.href = ".." THEN << >>
  ELSE IF ContainsSort(s.href) THEN << >>
  ELSE IF buildAbsoluteURL(s.href).err THEN << >>
  ELSE << [Name |-> IF TrimSpace(s.text) = "" THEN s.href ELSE TrimSpace(s.text),
           URL |-> buildAbsoluteURL(s.href).URL,
           Size |-> extractSize(s)] >>

\* lines 61-103: what the callback adds to files for one selected element
EachLink(s) ==
  IF ~s.attr THEN << >>
  ELSE IF s.href = "../" \/ s.href = ".." THEN << >>
  ELSE IF ContainsSort(s.href) THEN << >>
  ELSE IF HasSuffixSlash(s.href) THEN << >>
  ELSE IF buildAbsoluteURL(s.href).err THEN << >>
  ELSE << [Name |-> IF TrimSpace(s.text) = "" THEN s.href ELSE TrimSpace(s.text),
           URL |-> buildAbsoluteURL(s.href).URL,
           Size |-> extractSize(s)] >>

\* lines 27-47: the request for the page and the check of its status
FetchPage ==
  /\ listing.pc = "ParseDirectoryListing"
  /\ listing' = IF listing.status = StatusOK
                  THEN [listing EXCEPT !.pc = "parseHTML"]
                  ELSE [listing EXCEPT !.pc = "returned", !.err = TRUE]
  /\ UNCHANGED << engine, delay, filter, cmd >>

\* doc.Find("table#list a").Each: the next <a> element of the document
EachStep ==
  /\ listing.pc = "parseHTML"
  /\ listing.i <= Len(listing.page)
  /\ listing' = [listing EXCEPT
       !.i = @ + 1,
       !.files = IF listing.page[listing.i].table
                   THEN @ \o EachLink(listing.page[listing.i]) ELSE @]
  /\ UNCHANGED << engine, delay, filter, cmd >>

\* line 105
ParseReturn ==
  /\ listing.pc = "parseHTML"
  /\ listing.i > Len(listing.page)
  /\ listing' = [listing EXCEPT !.pc = "returned"]
  /\ UNCHANGED << engine, delay, filter, cmd >>

InitParser ==
  /\ AtRest(<< >>, 1)
  /\ delay = NoDelay
  /\ filter = NoCall
  /\ cmd = NoCall
  /\ \E page \in Pages, status \in Statuses :
       listing = [pc |-> "ParseDirectoryListing", status |-> status, page |-> page,
                  i |-> 1, files |-> << >>, err |-> FALSE]

NextParser == FetchPage \/ EachStep \/ ParseReturn

SpecParser == InitParser /\ [][NextParser]_vars

(***************************************************************************)
(* parseSizeString (internal/parser/parser.go, lines 156-186).  A text is  *)
(* taken apart as the regular expression of line 158 reads it: a decimal   *)
(* number (whole part, one decimal or none), the white space after it, the *)
(* letters that follow, and what comes after them.  A count of bytes is    *)
(* hi * 2^20 + lo.                                                         *)
(***************************************************************************)
Mebi == 2^20

Text(number, whole, decimal, gap, letters, tail) ==
  [number |-> number, whole |-> whole, decimal |-> decimal, gap |-> gap,
   unit |-> letters, tail |-> tail]

\* "<whole>[.<decimal>]<gap><unit><tail>", e.g. "70.5 KiB", "123", "2.5GiB x",
\* "5 KB", "5 kib", "7 Bytes"; and "", "invalid", "KiB" without a number
Texts ==
  { Text(TRUE, w, d, g, u, t) :
      w \in {1, 2, 70, 123}, d \in {0 - 1, 0, 2, 5}, g \in {"", " "},
      u \in {"B", "KiB", "MiB", "GiB", "TiB", "K", "M", "G", "T", "", "KB", "kib"},
      t \in {"", " x", "ytes"} }
  \cup { Text(FALSE, 0, 0 - 1, "", u, "") : u \in {"", "invalid", "KiB"} }

\* line 158-159: the expression finds digits, optional white space, one of
\* the units, and then white space or the end of the text
FindStringSubmatch(text) ==
  /\ text.number
  /\ text.unit \in {"B", "KiB", "MiB", "GiB", "TiB", "K", "M", "G", "T"}
  /\ text.tail \in {"", " x"}

\* line 165: strconv.ParseFloat(matches[1], 64), in tenths
ParseFloat(text) == 10 * text.whole + (IF text.decimal < 0 THEN 0 ELSE text.decimal)

\* a multiplier with GiB taken for MiB
multiplierGibiTypo(letters) ==
  CASE letters \in {"K", "KiB"} -> 1
    [] letters \in {"M", "MiB"} -> 2
    [] letters \in {"G", "GiB"} -> 2
    [] letters \in {"T", "TiB"} -> 4
    [] OTHER -> 0

\* lines 173-183: the multiplier 1024^k, held as k
multiplier(letters) ==
  CASE letters \in {"K", "KiB"} -> 1
    [] letters \in {"M", "MiB"} -> 2
    [] letters \in {"G", "GiB"} -> 3
    [] letters \in {"T", "TiB"} -> 4
    [] OTHER -> 0

Bytes(hi, lo) == [hi |-> hi, lo |-> lo]

\* line 185: int64(value * float64(multiplier)) for value = tenths / 10
ToInt64(tenths, k) ==
  IF k < 2
    THEN Bytes(((tenths * 1024^k) \div 10) \div Mebi, ((tenths * 1024^k) \div 10) % Mebi)
    ELSE LET v == tenths * 1024^(k - 2)
         IN  Bytes(v \div 10, ((v % 10) * Mebi) \div 10)

parseSizeString(text) ==
  IF ~FindStringSubmatch(text) THEN Bytes(0, 0)
  ELSE ToInt64(ParseFloat(text), multiplier(text.unit))

\* parseSizeString(text) is called and returns
ParseSize ==
  /\ listing.pc = "parseSizeString"
  /\ listing' = [listing EXCEPT !.pc = "size", !.ret = parseSizeString(listing.text)]
  /\ UNCHANGED << engine, delay, filter, cmd >>

InitSize ==
  /\ AtRest(<< >>, 1)
  /\ delay = NoDelay
  /\ filter = NoCall
  /\ cmd = NoCall
  /\ \E text \in Texts : listing = [pc |-> "parseSizeString", text |-> text, ret |-> Bytes(0, 0)]

SpecSize == InitSize /\ [][ParseSize]_vars

(***************************************************************************)
(* The command (cmd/root.go, run): the listing is fetched, filtered, and   *)
(* only then the output directory is created and the files are requested.  *)
(***************************************************************************)
\* what one execution meets: the URL is rejected by url.Parse or not, the
\* listing fails (found = -1) or has found files of which Filter keeps
\* kept, --dry-run, the outcome of os.MkdirAll and of DownloadAll
Executions ==
  { [urlErr |-> u, found |-> n, kept |-> k, dryRun |-> d, mkdirErr |-> m, dlErr |-> e] :
      u \in BOOLEAN, n \in (0 - 1)..MaxListed, k \in 0..MaxListed,
      d \in BOOLEAN, m \in BOOLEAN, e \in BOOLEAN }

Return(err) == [cmd EXCEPT !.pc = "returned", !.err = err]

\* lines 449-452: url.Parse(targetURL)
ParseURL ==
  /\ cmd.pc = "run"
  /\ cmd' = IF cmd.in.urlErr THEN Return(TRUE) ELSE [cmd EXCEPT !.pc = "listing"]
  /\ UNCHANGED << engine, delay, filter, listing >>

\* the listing step taking an empty listing for a success
FetchListingEmptyOk ==
  /\ cmd.pc = "listing"
  /\ cmd' = IF cmd.in.found < 0 THEN Return(TRUE)
            ELSE [cmd EXCEPT !.pc = "filter", !.listed = TRUE]
  /\ UNCHANGED << engine, delay, filter, listing >>

\* lines 470-479: parser.ParseDirectoryListing and the check for no files
FetchListing ==
  /\ cmd.pc = "listing"
  /\ cmd' = IF cmd.in.found < 0 THEN Return(TRUE)
            ELSE IF cmd.in.found = 0 THEN [Return(TRUE) EXCEPT !.listed = TRUE]
            ELSE [cmd EXCEPT !.pc = "filter", !.listed = TRUE]
  /\ UNCHANGED << engine, delay, filter, listing >>

\* lines 486-492: Filter, and the return when nothing matches
FilterFiles ==
  /\ cmd.pc = "filter"
  /\ cmd' = IF cmd.in.kept = 0 THEN Return(FALSE) ELSE [cmd EXCEPT !.pc = "dryRun"]
  /\ UNCHANGED << engine, delay, filter, listing >>

\* the check of --dry-run left out
CheckDryRunIgnored ==
  /\ cmd.pc = "dryRun"
  /\ cmd' = [cmd EXCEPT !.pc = "mkdir"]
  /\ UNCHANGED << engine, delay, filter, listing >>

\* lines 502-508
CheckDryRun ==
  /\ cmd.pc = "dryRun"
  /\ cmd' = IF cmd.in.dryRun THEN [Return(FALSE) EXCEPT !.printed = TRUE]
            ELSE [cmd EXCEPT !.pc = "mkdir"]
  /\ UNCHANGED << engine, delay, filter, listing >>

\* lines 511-513: os.MkdirAll(outputDir, 0755)
MkdirAll ==
  /\ cmd.pc = "mkdir"
  /\ cmd' = IF cmd.in.mkdirErr THEN Return(TRUE)
            ELSE [cmd EXCEPT !.pc = "new", !.made = TRUE]
  /\ UNCHANGED << engine, delay, filter, listing >>

\* lines 517-522: downloader.New
NewDownloader ==
  /\ cmd.pc = "new"
  /\ cmd' = [cmd EXCEPT !.pc = "download", !.dl = TRUE]
  /\ UNCHANGED << engine, delay, filter, listing >>

\* lines 524-529: dl.DownloadAll(filtered), which requests the first of the
\* files at least, and the return of its outcome
DownloadFiles ==
  /\ cmd.pc = "download"
  /\ cmd' = [Return(cmd.in.dlErr) EXCEPT !.requests = TRUE]
  /\ UNCHANGED << engine, delay, filter, listing >>

InitCmd ==
  /\ AtRest(<< >>, 1)
  /\ delay = NoDelay
  /\ filter = NoCall
  /\ listing = NoCall
  /\ \E in \in Executions :
       /\ in.kept <= in.found \/ (in.found < 0 /\ in.kept = 0)
       /\ cmd = [pc |-> "run", in |-> in, listed |-> FALSE, printed |-> FALSE,
                 made |-> FALSE, dl |-> FALSE, requests |-> FALSE, err |-> FALSE]

NextCmd ==
  \/ ParseURL
  \/ FetchListing
  \/ FilterFiles
  \/ CheckDryRun
  \/ MkdirAll
  \/ NewDownloader
  \/ DownloadFiles

SpecCmd == InitCmd /\ [][NextCmd]_vars

(***************************************************************************)
(* The serial run as a function of the descriptors (lines 50-56 with       *)
(* every downloadFile returning nil), and the runs started on an empty     *)
(* output directory.                                                       *)
(***************************************************************************)
\* lines 104-182 when nothing fails, on the directory dir: the file is
\* skipped, or os.Create(tempPath), io.Copy of the whole body,
\* os.Rename(tempPath, outputPath) and the deferred os.Remove(tempPath)
downloadFile(dir, fl, i) ==
  LET out == OutputPath(fl[i].Name)
      tmp == TempPath(out)
      body == IF dir[tmp].ino # 0
              THEN [dir[tmp] EXCEPT !.src = i, !.size = remoteSize]
              ELSE [ino |-> i, src |-> i, size |-> remoteSize]
  IN  IF dir[out].ino # 0 /\ dir[out].size = remoteSize
      THEN dir
      ELSE [dir EXCEPT ![out] = body, ![tmp] = NoFile]

\* lines 50-56: the directory after the first n descriptors
RECURSIVE SerialRun(_, _, _)
SerialRun(dir, fl, n) ==
  IF n = 0 THEN dir ELSE downloadFile(SerialRun(dir, fl, n - 1), fl, n)

\* the files of a directory and what they hold: whose body, how much of it
Content(dir) ==
  [p \in Paths |-> IF dir[p].ino = 0 THEN << >> ELSE << dir[p].src, dir[p].size >>]

InitEmptyDir == Init /\ fs = InitDir(files, 0 - 1, 0 - 1)

SpecEmptyDir == InitEmptyDir /\ [][Next]_vars

(***************************************************************************)
(* The properties.                                                         *)
(***************************************************************************)
\* positions of a unit between lines 237 (slot taken) and 242 (slot given
\* back): it has been admitted and has not released the gate
Admitted ==
  {"head", "get", "copy", "rename", "cleanup", "backoff", "retok", "reterr", "cancel",
   "release"}

\* C1 -- atomicity: at every moment of a run on descriptors with pairwise
\* distinct names, the output path of each descriptor is absent, holds the
\* untouched file that was there before the run, or holds a completely
\* written body
Atomicity ==
  \A j \in Units :
    LET f == fs[outputPath(j)]
    IN  f.ino = 0 \/ f.src = 0 \/ f.size = remoteSize

\* C2 -- in parallel mode the units that were admitted through the gate and
\* have not released it are never more than Parallel
GateBound ==
  Parallel > 1 => Cardinality({i \in Units : unit[i].pc \in Admitted}) <= Parallel

\* the gate is full while another unit is parked in its select
GateFull ==
  /\ Parallel > 1
  /\ Cardinality({i \in Units : unit[i].pc \in Admitted}) = Parallel
  /\ \E i \in Units : unit[i].pc = "parked"

Ended(i) == unit[i].outcome \in {"Skipped", "Completed"}

\* C3 -- in either mode, external cancellation included, DownloadAll returns
\* nil only if every input descriptor ended Skipped or Completed
NilMeansAllEnded ==
  mainPc = "returned" /\ result.ok => \A i \in Units : Ended(i)

\* C4 -- resume correctness: in an attempt whose HEAD request succeeds, the
\* attempt ends Skipped without a GET request iff a local file exists at the
\* output path whose size equals the remote size; otherwise a GET request
\* is issued
ResumeCorrect ==
  [][\A i \in Units :
       unit[i].pc = "head" /\ unit'[i].pc \in {"retok", "get"} =>
         LET f == fs[outputPath(i)]
             same == f.ino # 0 /\ f.size = remoteSize
         IN  /\ same => unit'[i].pc = "retok" /\ unit'[i].outcome = "Skipped"
             /\ ~same => unit'[i].pc = "get" /\ unit'[i].outcome # "Skipped"]_vars

\* an attempt ended Skipped on a local file of the remote size
SkippedSameSize ==
  \E i \in Units :
    /\ unit[i].pc = "retok"
    /\ unit[i].outcome = "Skipped"
    /\ fs[outputPath(i)].ino # 0
    /\ fs[outputPath(i)].size = remoteSize

\* C5 -- serial mode: no descriptor is started before every earlier one
\* ended Skipped or Completed, after a descriptor failed no later one is
\* started, and the failure returned names the first failing descriptor
SerialOrder ==
  Parallel = 1 =>
    /\ \A j \in Units : unit[j].pc # "idle" => \A i \in 1..(j - 1) : Ended(i)
    /\ \A i \in Units : unit[i].outcome = "Failed" =>
          \A j \in (i + 1)..N : unit[j].pc = "idle"
    /\ mainPc = "returned" =>
          IF \E i \in Units : unit[i].outcome = "Failed"
          THEN ~result.ok /\ unit[result.first].outcome = "Failed"
          ELSE result.ok /\ \A i \in Units : Ended(i)

\* the second of three descriptors failed and the run returned
SerialFailFast ==
  /\ Parallel = 1
  /\ N = 3
  /\ mainPc = "returned"
  /\ ~result.ok
  /\ result.first = 2
  /\ Ended(1)
  /\ unit[3].pc = "idle"

\* positions of a unit before the select of lines 237-241 is decided
Waiting == {"check", "acquire", "parked", "woken"}

\* C6 -- parallel mode: once a unit has failed and signalled cancellation,
\* no unit that was not admitted through the gate by then is admitted
NoAdmissionAfterFailure ==
  [][\A i \in Units :
       Parallel > 1 /\ ctxChild /\ unit[i].pc \in Waiting => unit'[i].pc \notin Admitted]_vars

\* C7 -- retry bound: no attempt is made beyond RetryAttempts, and without
\* cancellation downloadFileWithRetry returns an error only after exactly
\* RetryAttempts attempts, as "failed after RetryAttempts attempts"
RetryBound ==
  \A i \in Units :
    /\ unit[i].attempt <= RetryAttempts
    /\ unit[i].pc = "reterr" /\ ~Done =>
          unit[i].attempt = RetryAttempts /\ unit[i].ret = "failed"
    /\ unit[i].pc = "backoff" => unit[i].attempt < RetryAttempts

\* without cancellation a unit returns an error after more than one attempt
RetriesExhausted ==
  \E i \in Units :
    /\ unit[i].pc = "reterr"
    /\ ~Done
    /\ RetryAttempts > 1
    /\ unit[i].attempt = RetryAttempts

\* C8 -- parallel aggregation without external cancellation: the failure
\* returned names a descriptor that exhausted its attempts and carries that
\* descriptor's own cause, never a cancellation error
PrimaryIsOwnFailure ==
  Parallel > 1 /\ ~ctxParent =>
    /\ Len(errCh) > 0 => errCh[1].cause \notin {"ctx", "nil"}
    /\ mainPc = "returned" /\ ~result.ok =>
          /\ result.cause \notin {"ctx", "nil"}
          /\ result.attempts = RetryAttempts
          /\ result.first \in Units
          /\ unit[result.first].ret = "failed"

\* three descriptors, two slots: the run returned one descriptor's own
\* failure although another unit reported an error too
PrimaryAmongSeveral ==
  /\ Parallel = 2
  /\ N = 3
  /\ ~ctxParent
  /\ mainPc = "returned"
  /\ ~result.ok
  /\ result.count > 0
  /\ result.cause # "ctx"

\* C9 -- the count a failed parallel run is annotated with is the number of
\* the other descriptors that failed after exhausting their attempts; units
\* stopped by the cancellation of the first failure are not counted
CountIsExhausted ==
  Parallel > 1 /\ ~ctxParent /\ mainPc = "returned" /\ ~result.ok =>
    result.count = Cardinality({i \in Units \ {result.first} : unit[i].ret = "failed"})

\* C10 -- when downloadParallel has returned every unit has settled
AllSettled ==
  Parallel > 1 /\ mainPc = "returned" => \A i \in Units : unit[i].pc = "exit"

\* a failed parallel run of three descriptors has returned
ParallelReturned ==
  /\ Parallel > 1
  /\ N = 3
  /\ mainPc = "returned"
  /\ ~result.ok
  /\ \E i \in Units : unit[i].outcome = "Completed"

ExpectedSizeIgnored ==
  [][\A i \in Units :
       unit[i].pc = "head" /\ unit'[i].pc \in {"retok", "get"} =>
         \A s \in ExpectedSizes :
           unit'[i] = ResumeCheck(unit[i], [files[i] EXCEPT !.Size = s], remoteSize)]_vars

\* a descriptor was skipped on a local file whose size is not the advertised
\* one
SkippedAgainstListing ==
  \E i \in Units :
    /\ unit[i].outcome = "Skipped"
    /\ fs[outputPath(i)].size # files[i].Size

\* C11 -- idempotence: a run over the descriptors of a run that returned
\* nil, with the remote files and the output directory unchanged in between,
\* issues no GET request and ends no descriptor other than Skipped
SecondRunSkips ==
  run > 1 =>
    \A i \in Units :
      /\ unit[i].pc \notin {"get", "copy", "rename", "cleanup"}
      /\ unit[i].outcome # "Completed"

\* C12 -- temporary-file cleanup: when an attempt returns, with or without
\* an error, the temporary file of its descriptor does not exist, and none
\* exists when the engine has returned
TempFileGone ==
  /\ \A i \in Units :
        unit[i].pc \in {"retok", "backoff", "reterr"} => ~Exists(tempPath(i))
  /\ mainPc = "returned" => \A i \in Units : ~Exists(tempPath(i))

\* C13 -- an attempt that ends in an error leaves the file at the output path
\* of its descriptor as it was: the only step of a unit that changes its
\* output path is the rename that succeeded, and the attempt of that step
\* returns nil
FailedAttemptFrame ==
  [][\A i \in Units :
       /\ unit'[i] # unit[i] /\ fs'[outputPath(i)] # fs[outputPath(i)] =>
             unit[i].pc = "rename" /\ unit'[i].pc = "cleanup" /\ unit'[i].err = "nil"
       /\ unit[i].pc = "cleanup" /\ unit[i].err = "nil" /\ unit'[i] # unit[i] =>
             unit'[i].pc = "retok"]_vars

\* the body was interrupted and the local file of another size is still the
\* one found before the run
MismatchedFileKept ==
  \E i \in Units :
    /\ unit[i].pc = "reterr"
    /\ unit[i].lastErr = "net"
    /\ fs[outputPath(i)] = PreFile(MaxBody - 1)

\* C16 -- in every attempt the HEAD request comes before the GET request,
\* and when the HEAD request fails the attempt fails with no GET request and
\* no temporary file created, as one attempt of the retry budget
HeadFirst ==
  [][\A i \in Units :
       /\ unit'[i].pc = "get" /\ unit[i].pc # "get" =>
             unit[i].pc = "head" /\ unit'[i].attempt = unit[i].attempt
       /\ unit[i].pc = "head" /\ unit'[i].pc \in {"backoff", "reterr"} =>
             /\ fs' = fs
             /\ unit'[i].attempt = unit[i].attempt
             /\ unit'[i].pc = "backoff" <=> unit[i].attempt < RetryAttempts]_vars

\* the last attempt failed on its HEAD request and no temporary file exists
HeadFailed ==
  \E i \in Units :
    /\ unit[i].pc = "reterr"
    /\ unit[i].lastErr = "head"
    /\ unit[i].attempt = RetryAttempts
    /\ ~Exists(tempPath(i))
    /\ ~Exists(outputPath(i))

\* C20 -- a descriptor that is Skipped leaves the local file at its output
\* path as it was and no temporary file is created for it: the attempt is
\* the one step of the resume check, which changes no file
SkippedFrame ==
  [][\A i \in Units :
       unit'[i].outcome = "Skipped" /\ unit[i].outcome # "Skipped" =>
         /\ unit[i].pc = "head"
         /\ fs' = fs
         /\ fs'[outputPath(i)].size = remoteSize]_vars

\* the first descriptor was skipped on the file found before the run, with
\* no temporary file beside it
SkippedUntouched ==
  /\ N > 0
  /\ unit[1].outcome = "Skipped"
  /\ fs[outputPath(1)] = PreFile(remoteSize)
  /\ ~Exists(tempPath(1))

\* the errors downloadFile returns from a position, without cancellation
ErrorsAt(pc) ==
  CASE pc = "head" -> {"head"}
    [] pc = "get" -> {"net", "status", "io"}
    [] pc = "copy" -> {"net", "io"}
    [] pc = "cleanup" -> {"io"}
    [] OTHER -> {}

\* C17 -- when the attempts are exhausted without cancellation, the error
\* returned wraps the failure of the last attempt and states RetryAttempts
\* as the number of attempts
ExhaustedWrapsLast ==
  [][\A i \in Units :
       unit'[i].pc = "reterr" /\ unit[i].pc \notin {"reterr", "backoff"} /\ ~Done =>
         /\ unit'[i].ret = "failed"
         /\ unit'[i].lastErr \in ErrorsAt(unit[i].pc)
         /\ Failure(i, unit'[i]).cause = unit'[i].lastErr
         /\ Failure(i, unit'[i]).attempts = RetryAttempts
         /\ unit[i].attempt = RetryAttempts]_vars

\* the second of two attempts failed on the status of its GET request
ExhaustedOnStatus ==
  \E i \in Units :
    /\ unit[i].pc = "reterr"
    /\ ~Done
    /\ RetryAttempts = 2
    /\ unit[i].attempt = 2
    /\ unit[i].lastErr = "status"

\* C18 -- failure classes are retried alike: whatever the failure of an
\* attempt, another attempt follows after the backoff iff the attempts made
\* are fewer than RetryAttempts
FailureClassBlind ==
  [][\A i \in Units :
       unit[i].pc \in {"head", "get", "copy", "cleanup"} /\
       unit'[i].pc \in {"backoff", "reterr"} =>
         /\ unit'[i].attempt = unit[i].attempt
         /\ unit'[i].pc = "backoff" <=> unit[i].attempt < RetryAttempts]_vars

\* two descriptors failed for good, one on its HEAD requests and one on a
\* local file operation, after the same number of attempts
TwoClassesExhausted ==
  \E i, j \in Units :
    /\ unit[i].pc = "reterr" /\ unit[i].lastErr = "head"
    /\ unit[j].pc = "reterr" /\ unit[j].lastErr = "io"
    /\ RetryAttempts > 1
    /\ unit[i].attempt = RetryAttempts
    /\ unit[j].attempt = RetryAttempts

\* the bounds of the schedule before attempt n, n - 2 doublings of a second:
\* 0.75 * base and 1.25 * base exceed 30 seconds from n = 8 and n = 7 on
LowerBound(n) == IF n >= 8 THEN 30 * Second ELSE (3 * (2^(n - 2) * Second)) \div 4
UpperBound(n) == IF n >= 7 THEN 30 * Second ELSE (5 * (2^(n - 2) * Second)) \div 4

\* C15 -- backoff schedule: the wait w before attempt n, 2 <= n <=
\* RetryAttempts, satisfies min(0.75*base, 30s) <= w <= min(1.25*base, 30s)
\* with base = 1s * 2^(n-2)
BackoffSchedule ==
  delay.pc = "next" =>
    LET n == delay.attempt + 1
    IN  /\ delay.w.hi = 0
        /\ LowerBound(n) <= delay.w.lo
        /\ delay.w.lo <= UpperBound(n)

\* the schedule over the attempts whose base delay fits the duration
BackoffScheduleSmall ==
  delay.pc = "next" /\ delay.attempt <= 33 => BackoffSchedule

\* C21 -- success postcondition: when DownloadAll returns nil for descriptors
\* with pairwise distinct names, every descriptor has at its output path a
\* file as long as the remote body: the body it transferred or the file it
\* was skipped for
SuccessPostcondition ==
  mainPc = "returned" /\ result.ok =>
    \A i \in Units : Exists(outputPath(i)) /\ fs[outputPath(i)].size = remoteSize

\* C22 -- exclusive ownership of paths: in a run over descriptors with
\* pairwise distinct names, the output file and the temporary file of a
\* descriptor are created, truncated, written, renamed or removed only by
\* steps of the unit of that descriptor
ExclusivePaths ==
  [][\A j \in Units :
       \/ unit'[j] # unit[j]
       \/ /\ fs'[outputPath(j)] = fs[outputPath(j)]
          /\ fs'[tempPath(j)] = fs[tempPath(j)]]_vars

\* C30 -- the backoff never collapses: the base delay of an attempt is not
\* below the base delay of the attempt before it, and from attempt n = 8 on
\* (0.75 * 2^(n-2) s >= 30 s) the wait before attempt n is exactly 30 s
BackoffNeverCollapses ==
  /\ delay.pc = "select" /\ delay.attempt >= 2 => ~Gt(delay.prev, delay.baseDelay)
  /\ delay.pc = "next" /\ delay.attempt + 1 >= 8 => delay.w = ThirtySeconds

\* the base delay alone, over the attempts where it fits the duration
BaseDelayMonotoneSmall ==
  delay.pc = "select" /\ delay.attempt >= 2 /\ delay.attempt <= 34 =>
    ~Gt(delay.prev, delay.baseDelay)

\* the descriptors Filter returned, by their position in the input
KeptAt(k) == \E j \in 1..Len(filter.filtered) : filter.filtered[j] = filter.files[k]

\* the pattern is well-formed and matches the name
Matches(pattern, name) == ~BadPattern(pattern) /\ Glob(pattern, name)

InSeq(s) == { s[k] : k \in 1..Len(s) }

\* C23 as stated -- a descriptor is kept iff (the include list is empty, or
\* contains the wildcard "*", or an include pattern matches the name) and
\* no exclude pattern matches the name
FilterSemanticsStated ==
  filter.pc = "returned" =>
    \A k \in 1..Len(filter.files) :
      LET name == filter.files[k].Name
          inc == InSeq(filter.m.includePatterns)
          exc == InSeq(filter.m.excludePatterns)
      IN  KeptAt(k) <=>
            /\ inc = {} \/ << "*" >> \in inc \/ \E p \in inc : Matches(p, name)
            /\ ~\E p \in exc : Matches(p, name)

\* C23 -- filter semantics: a descriptor is kept iff (the include list is
\* empty, or contains an empty pattern or "*", or an include pattern matches
\* the name) and no non-empty exclude pattern matches the name
FilterSemantics ==
  filter.pc = "returned" =>
    \A k \in 1..Len(filter.files) :
      LET name == filter.files[k].Name
          inc == InSeq(filter.m.includePatterns)
          exc == InSeq(filter.m.excludePatterns)
      IN  KeptAt(k) <=>
            /\ inc = {} \/ << >> \in inc \/ << "*" >> \in inc
                 \/ \E p \in inc : Matches(p, name)
            /\ ~\E p \in exc : p # << >> /\ Matches(p, name)

\* Filter returned with an empty include pattern in second place, having
\* kept one descriptor and dropped another for an exclude pattern
FilteredOnEmptyPattern ==
  /\ filter.pc = "returned"
  /\ Len(filter.m.includePatterns) = 2
  /\ filter.m.includePatterns[2] = << >>
  /\ filter.m.excludePatterns = << << "[" >>, << "a", "*" >> >>
  /\ Len(filter.files) = 2
  /\ Len(filter.filtered) = 1

\* C24 -- Filter returns a subsequence of its input: every element of the
\* result is the unmodified input descriptor of some position, the positions
\* strictly increase along the result, and an empty input gives an empty
\* result
FilterSubsequence ==
  filter.pc \in {"range", "returned"} =>
    /\ \A j \in 1..Len(filter.filtered) :
         LET k == filter.filtered[j].URL
         IN  /\ k \in 1..Len(filter.files)
             /\ filter.filtered[j] = filter.files[k]
             /\ j > 1 => filter.filtered[j - 1].URL < k
    /\ filter.files = << >> => filter.filtered = << >>

\* Filter returned both of two descriptors of the same name
FilteredTwoOfAName ==
  /\ filter.pc = "returned"
  /\ Len(filter.files) = 2
  /\ filter.files[1].Name = filter.files[2].Name
  /\ Len(filter.filtered) = 2

\* C25 -- invalid patterns never abort filtering: a non-empty include list
\* of invalid patterns only keeps nothing, a descriptor that is kept under a
\* non-empty include list is kept for a well-formed pattern of it, a
\* descriptor that passes the include list is dropped only for a well-formed
\* exclude pattern that matches it, and Filter ends by returning its result
InvalidPatternsInert ==
  LET inc == InSeq(filter.m.includePatterns)
      exc == InSeq(filter.m.excludePatterns)
      Passes(name) ==
        \/ inc = {}
        \/ \E p \in inc : ~BadPattern(p) /\ (p = << >> \/ p = << "*" >> \/ Glob(p, name))
  IN  /\ filter.pc = "range" => filter.i <= Len(filter.files) + 1
      /\ filter.pc = "returned" =>
           /\ inc # {} /\ (\A p \in inc : BadPattern(p)) => filter.filtered = << >>
           /\ \A k \in 1..Len(filter.files) :
                LET name == filter.files[k].Name
                IN  /\ KeptAt(k) => Passes(name)
                    /\ Passes(name) /\ ~KeptAt(k) =>
                         \E p \in exc : ~BadPattern(p) /\ Glob(p, name)
                    /\ Passes(name) /\ (\A p \in exc : BadPattern(p)) => KeptAt(k)

\* Filter returned after an invalid include pattern that precedes a valid
\* one and an invalid exclude pattern, having kept one of two descriptors
FilteredPastInvalid ==
  /\ filter.pc = "returned"
  /\ filter.m.includePatterns = << << "[" >>, << "a", "*" >> >>
  /\ filter.m.excludePatterns = << << "[" >> >>
  /\ Len(filter.files) = 2
  /\ Len(filter.filtered) = 1

\* the hrefs of the links that denote files
FileHrefs == {"a.zip", "b.zip", "c.zip"}

\* the descriptor of a file link: named by its text, or by its href when it
\* has no text
Descriptor(a) ==
  [Name |-> IF a.href = "b.zip" THEN "b.zip" ELSE "a.zip",
   URL |-> "http://host/dir/" \o a.href, Size |-> a.size]

\* C26 -- the parser returns, in page order, exactly the links inside the
\* listing table that denote files: no parent-directory link, sort link,
\* sub-directory link or link outside the table; a response that is not a
\* success gives an error and no descriptors
ListingExact ==
  listing.pc = "returned" =>
    LET fileLinks == SelectSeq(listing.page,
                       LAMBDA a : a.table /\ a.attr /\ a.href \in FileHrefs)
    IN  IF listing.status = StatusOK
          THEN /\ ~listing.err
               /\ listing.files = [k \in 1..Len(fileLinks) |-> Descriptor(fileLinks[k])]
          ELSE listing.err /\ listing.files = << >>

\* a page of a file, a sub-directory and a second file was parsed
ListedAroundDirectory ==
  /\ listing.pc = "returned"
  /\ Len(listing.page) = 3
  /\ listing.page[1].href = "b.zip"
  /\ listing.page[2].href = "sub/"
  /\ listing.page[3].href = "a.zip"
  /\ Len(listing.files) = 2

\* the whole part and the decimal of a number times 1024^k, each on its own
WholeTimes(whole, k) ==
  CASE k <= 2 -> Bytes((whole * 1024^k) \div Mebi, (whole * 1024^k) % Mebi)
    [] k = 3 -> Bytes(whole * 1024, 0)
    [] k = 4 -> Bytes(whole * Mebi, 0)

DecimalTimes(decimal, k) ==
  CASE k = 0 -> Bytes(0, 0)
    [] k = 1 -> Bytes(0, (decimal * 1024) \div 10)
    [] k = 2 -> Bytes(0, (decimal * Mebi) \div 10)
    [] k = 3 -> Bytes((decimal * 1024) \div 10, (((decimal * 1024) % 10) * Mebi) \div 10)
    [] k = 4 -> Bytes((decimal * Mebi) \div 10, (((decimal * Mebi) % 10) * Mebi) \div 10)

\* the units of the claim: B, KiB/K, MiB/M, GiB/G, TiB/T for k = 0..4
UnitPower ==
  [u \in {"B", "KiB", "K", "MiB", "M", "GiB", "G", "TiB", "T"} |->
     CASE u = "B" -> 0
       [] u \in {"KiB", "K"} -> 1
       [] u \in {"MiB", "M"} -> 2
       [] u \in {"GiB", "G"} -> 3
       [] u \in {"TiB", "T"} -> 4]

\* C27 -- size parsing: '<number> <unit>' yields number * 1024^k bytes for
\* the units B, KiB/K, MiB/M, GiB/G, TiB/T with k = 0..4 ('70.5 KiB' gives
\* 72192, '2.5 GiB' gives 2684354560 = 2560 * 2^20), and a text with no
\* recognised unit, the empty text and a bare number included, yields 0
SizeParsing ==
  listing.pc = "size" =>
    LET text == listing.text
        d == IF text.decimal < 0 THEN 0 ELSE text.decimal
    IN  /\ text.number /\ text.tail = "" /\ text.unit \in DOMAIN UnitPower =>
             LET k == UnitPower[text.unit]
                 w == WholeTimes(text.whole, k)
                 f == DecimalTimes(d, k)
             IN  /\ listing.ret.lo = (w.lo + f.lo) % Mebi
                 /\ listing.ret.hi = w.hi + f.hi + (w.lo + f.lo) \div Mebi
        /\ text.number /\ text.whole = 70 /\ text.decimal = 5 /\ text.unit = "KiB"
             /\ text.tail = "" => listing.ret = Bytes(0, 72192)
        /\ text.number /\ text.whole = 2 /\ text.decimal = 5 /\ text.unit = "GiB"
             /\ text.tail = "" => listing.ret = Bytes(2560, 0)
        /\ ~text.number \/ text.unit \notin DOMAIN UnitPower \/ text.tail = "ytes" =>
             listing.ret = Bytes(0, 0)

\* "2.5 GiB" was parsed
ParsedGibibytes ==
  /\ listing.pc = "size"
  /\ listing.text = Text(TRUE, 2, 5, " ", "GiB", "")
  /\ listing.ret.hi > 0

\* C28 -- pipeline ordering: when the listing cannot be fetched or parsed,
\* or holds no files, the command returns an error, and at no moment of the
\* execution the output directory is created or a file requested
PipelineOrder ==
  cmd.pc # "none" /\ cmd.in.found <= 0 =>
    /\ ~cmd.made
    /\ ~cmd.dl
    /\ ~cmd.requests
    /\ cmd.pc \in {"run", "listing", "returned"}
    /\ cmd.pc = "returned" => cmd.err

\* the command returned on a listing without files
ReturnedOnEmptyListing ==
  /\ cmd.pc = "returned"
  /\ cmd.listed
  /\ cmd.in.found = 0
  /\ cmd.err

\* C29 -- dry-run has no download effects: with --dry-run the output
\* directory is never created, no downloader constructed and no file
\* requested, and the command returns once the matched files are listed
DryRunNoEffects ==
  cmd.pc # "none" /\ cmd.in.dryRun =>
    /\ ~cmd.made
    /\ ~cmd.dl
    /\ ~cmd.requests
    /\ cmd.pc \notin {"mkdir", "new", "download"}
    /\ cmd.printed => cmd.pc = "returned" /\ ~cmd.err

\* the command returned from its dry-run branch with files matched
ReturnedFromDryRun ==
  /\ cmd.pc = "returned"
  /\ cmd.in.dryRun
  /\ cmd.printed
  /\ cmd.in.kept > 0

\* the units that are past line 258: downloadFileWithRetry returned nil to
\* them and they have counted it
Counted == {i \in Units : unit[i].pc \in {"release", "exit"} /\ Ended(i)}

\* positions of a unit between line 242 and line 250, where it reads the
\* counter for its progress line
Reporting == {"head", "get", "copy", "rename", "cleanup", "backoff", "retok", "reterr"}

\* C31 -- the progress counter loses no update: in a parallel run completed
\* is the number of units that counted the nil their downloadFileWithRetry
\* returned, it is at most the number of descriptors, the index a unit can
\* report lies in 1..total, and after a run in which every unit succeeded it
\* is the number of descriptors
ProgressCounter ==
  Parallel > 1 =>
    /\ completed = Cardinality(Counted)
    /\ completed <= N
    /\ (\E i \in Units : unit[i].pc \in Reporting) => current \in 1..N
    /\ mainPc = "returned" /\ (\A i \in Units : Ended(i)) => completed = N

\* a parallel run of three descriptors returned with every one counted
AllCounted ==
  /\ Parallel > 1
  /\ N = 3
  /\ mainPc = "returned"
  /\ result.ok
  /\ completed = N

\* the error of unit i is in the error channel
Recorded(i) == \E k \in 1..Len(errCh) : errCh[k].first = i

\* C32 -- first-failure ordering: in parallel mode a unit whose
\* downloadFileWithRetry failed has sent its error and called cancel()
\* when it gives its slot back, so whenever the slot of a failed unit is
\* about to be free or free again, the context is cancelled, the error is
\* recorded until the coordinator collects it, and no unit is left parked
\* on the gate
FailureBeforeRelease ==
  \A i \in Units :
    Parallel > 1 /\ unit[i].outcome = "Failed" /\ unit[i].pc \in {"release", "exit"} =>
      /\ ctxChild
      /\ Recorded(i) \/ mainPc = "returned"
      /\ \A j \in Units : unit[j].pc # "parked"

\* a failed unit has given its slot back while another unit is still before
\* the gate
SlotFreedByFailure ==
  /\ Parallel > 1
  /\ semaphore < Parallel
  /\ \E i \in Units : unit[i].outcome = "Failed" /\ unit[i].pc = "exit" /\ Recorded(i)
  /\ \E j \in Units : unit[j].pc \in {"acquire", "woken"}

\* a unit is parked on the gate only while a unit that holds a slot is on
\* its way to give it back
GateLive ==
  Parallel > 1 /\ (\E i \in Units : unit[i].pc = "parked") =>
    \E j \in Units : unit[j].pc \in Admitted

\* every unit has returned and so has DownloadAll
Terminated == mainPc = "returned" /\ \A i \in Units : unit[i].pc = "exit"

\* C33 -- termination and deadlock freedom: in parallel mode, under a fair
\* scheduler and with every request and timer coming back, every unit
\* returns and DownloadAll returns, and in no reachable state the units
\* that are left are all blocked on the gate
Termination == []GateLive /\ (Parallel > 1 ~> Terminated)

\* a parallel run returned with a unit that left the gate without a slot
TerminatedPastGate ==
  /\ Parallel > 1
  /\ N = 3
  /\ Terminated
  /\ \E i \in Units : unit[i].outcome = "none"
  /\ \E i \in Units : unit[i].outcome = "Failed"

\* positions of a unit inside an attempt or between two attempts
Attempting == {"head", "get", "copy", "rename", "cleanup", "backoff"}

\* C34 -- attempt discipline: in either mode no descriptor gets more than
\* RetryAttempts attempts, a descriptor whose unit has returned is not
\* handed to a unit again, and once an attempt for a descriptor ended
\* Skipped or Completed no further attempt, and so no request, is made
\* for it
AttemptDiscipline ==
  [][\A i \in Units :
       /\ unit'[i].attempt <= RetryAttempts
       /\ unit[i].pc = "exit" => unit'[i].pc = "exit"
       /\ unit[i].pc # "idle" => unit'[i].pc # "idle"
       /\ Ended(i) => /\ unit'[i].pc \notin Attempting
                      /\ unit'[i].attempt <= unit[i].attempt
                      /\ Ended(i)']_vars

\* the last attempt allowed for a descriptor ended Completed
CompletedOnLastAttempt ==
  \E i \in Units :
    /\ RetryAttempts = MaxRetry
    /\ unit[i].attempt = RetryAttempts
    /\ unit[i].pc = "retok"
    /\ unit[i].outcome = "Completed"

\* DownloadAll returned nil from a run without cancellation in which every
\* descriptor needed one attempt, the only one it had
CleanRun ==
  /\ mainPc = "returned"
  /\ result.ok
  /\ ~ctxParent
  /\ RetryAttempts = 1
  /\ \A i \in Units : Ended(i)

\* C35 -- mode equivalence on success: after a run on descriptors of
\* pairwise distinct names in which no attempt failed and nothing was
\* cancelled, the files of the output directory and their contents are
\* those the serial run leaves, whatever the parallelism and the
\* interleaving
ModeEquivalence ==
  CleanRun => Content(fs) = Content(SerialRun(InitDir(files, 0 - 1, 0 - 1), files, N))

\* the units that hold a slot of the gate
Holders == {i \in Units : unit[i].pc \in Admitted}

\* C36 -- slot accounting: in parallel mode the elements in the semaphore
\* are the units between their admission and their release, one each; a
\* unit that returns without having been admitted takes none out, a unit
\* that returns after its admission gives up exactly its own, and when
\* downloadParallel returns the semaphore is empty
SlotAccounting ==
  /\ [](Parallel > 1 => /\ semaphore = Cardinality(Holders)
                        /\ mainPc = "returned" => semaphore = 0)
  /\ [][Parallel > 1 =>
          \A i \in Units :
            /\ unit[i].pc \in Waiting /\ unit'[i].pc = "exit" => semaphore' = semaphore
            /\ unit[i].pc \in Admitted /\ unit'[i].pc = "exit" =>
                 semaphore' - Cardinality(Holders') = semaphore - Cardinality(Holders)
            /\ unit[i].pc = "exit" => unit'[i].pc = "exit"]_vars

\* downloadParallel returned with the gate empty after a unit completed, a
\* unit failed and a unit left without a slot
GateEmptyAtReturn ==
  /\ Parallel > 1
  /\ mainPc = "returned"
  /\ semaphore = 0
  /\ \E i \in Units : unit[i].outcome = "Completed"
  /\ \E i \in Units : unit[i].outcome = "Failed"
  /\ \E i \in Units : unit[i].outcome = "none" /\ unit[i].pc = "exit"

\* the errors unit i has sent that are in the error channel
Sent(i) == {k \in 1..Len(errCh) : errCh[k].first = i}

\* the units that are past the send of line 251
Senders ==
  {i \in Units : unit[i].outcome = "Failed" /\ unit[i].pc \in {"cancel", "release", "exit"}}

\* C37 -- error reporting never blocks: in parallel mode every unit sends
\* at most one error, the errors sent are never more than the descriptors
\* errCh was made for, a unit that is about to send can send at once, and
\* the channel is closed and drained only when no unit is left that could
\* send
ErrorsNeverBlock ==
  Parallel > 1 =>
    /\ \A i \in Units : Cardinality(Sent(i)) <= 1
    /\ Len(errCh) <= N
    /\ mainPc = "wait" => Len(errCh) = Cardinality(Senders)
    /\ \A i \in Units : unit[i].pc = "reterr" => mainPc = "wait" /\ ENABLED SendErr(i)
    /\ mainPc = "returned" => /\ \A i \in Units : unit[i].pc = "exit"
                              /\ result.count + 1 = Cardinality(Senders) \/ result.ok

\* every one of three units has sent an error
ErrChFull ==
  /\ Parallel > 1
  /\ N = 3
  /\ mainPc = "wait"
  /\ Len(errCh) = N

====
